---- MODULE Spec2Model ----
(***************************************************************************)
(* Model of app.py: a feed aggregator.  update_feed() polls the configured *)
(* feeds, stores the entries whose link is not stored yet and commits once *)
(* at the end; index() and rss_feed() read the stored articles.  The main  *)
(* thread runs one pass at boot, then a background scheduler runs          *)
(* update_feed() every 60 seconds while the web server answers requests.   *)
(***************************************************************************)
EXTENDS Integers, Sequences, FiniteSets, TLC

(* ---------------------------------------------------------------- bounds *)
\* Number of configured feeds (RSS_FEEDS has 10; the loop treats all alike).
NumFeeds == 3
\* Entries served by all feeds together during one pass.
MaxEntries == 2
\* Timer ticks the model follows.
MaxClock == 2

(* ----------------------------------------------------- program constants *)
PageLimit == 25
RssLimit == 10
\* add_job(...) without max_instances: the scheduler's default of one.
MaxInstances == 1
\* trigger="interval", seconds=60: one minute of clock per tick.
IntervalMinutes == 1
\* Europe/Amsterdam is UTC+1 (winter time), in minutes.
AmsterdamOffset == 60

Feeds == 1..NumFeeds
Workers == {"w1", "w2"}
Threads == {"main"} \cup Workers

(* ------------------------------------------------------------ feed input *)
\* Text is a tuple of characters.
TitleA == <<"A", "b">>
TitleB == <<"b", "_">>
SumA == <<"a", "%">>
SumB == <<"B">>

\* A pubDate string: in the format of line 74 and naming instant t, or not.
GoodDate(t) == [fmt |-> "rfc822", t |-> t]
BadDate == [fmt |-> "other", t |-> 0]

\* Parsed entries, as feedparser hands them over: fields may be missing.
\* published_parsed is <<t>> (a time tuple for instant t) or <<>> (None).
Entries ==
    { [link |-> "a", title |-> TitleA, pubDate |-> GoodDate(1),
       published_parsed |-> <<0>>, summary |-> SumA],
      [link |-> "a", title |-> TitleB],
      [link |-> "b", title |-> TitleA, pubDate |-> BadDate,
       published_parsed |-> <<5>>, description |-> SumB],
      [link |-> "b", title |-> TitleB, published_parsed |-> <<2>>,
       summary |-> SumA, description |-> SumB],
      [link |-> "b", title |-> TitleB, published_parsed |-> <<>>],
      [title |-> TitleA, summary |-> SumA],
      [link |-> "a", pubDate |-> GoodDate(1)] }

SeqsUpTo(S, n) == UNION { [1..k -> S] : k \in 0..n }

\* What one fetch yields: a transport failure (requests.get raises), or the
\* parsed entries (none for an empty, non-2xx or malformed body).
FetchError == [ok |-> FALSE, entries |-> <<>>]
Fetched(es) == [ok |-> TRUE, entries |-> es]
Outcomes == {FetchError} \cup { Fetched(es) : es \in SeqsUpTo(Entries, MaxEntries) }

\* 'f' in entry
Has(e, f) == f \in DOMAIN e

(* ------------------------------------------------------------- the store *)
\* A nullable column value: <<>> is NULL, <<v>> a value.
Null == <<>>
Some(v) == <<v>>

Range(s) == { s[i] : i \in 1..Len(s) }
Links(rows) == { r.link : r \in Range(rows) }

\* Article.query.filter_by(link=...).first(): the session autoflushes, so the
\* query sees the committed rows and the rows this pass has added.
LinkExists_AnyRow(link, rows) == rows # <<>>
LinkExists(link, rows) == \E i \in 1..Len(rows) : rows[i].link = link

\* The integer primary key the store assigns: one above the largest in use.
RECURSIVE MaxId(_)
MaxId(rows) == IF rows = <<>> THEN 0
               ELSE LET m == MaxId(Tail(rows))
                    IN IF Head(rows).id > m THEN Head(rows).id ELSE m
NextId(rows) == MaxId(rows) + 1

\* time.mktime of the time tuple (the process's zone taken as UTC).
Mktime(tuple) == tuple[1]

\* Lines 70-81.  Times are minutes; a stored DateTime keeps the wall-clock
\* fields only: an Amsterdam datetime is stored as its instant plus the
\* offset, datetime.utcnow() as the instant itself.
ResolveDate_NullFallback(entry, now) ==
    IF Has(entry, "pubDate")
    THEN IF entry.pubDate.fmt = "rfc822"
         THEN Some(entry.pubDate.t + AmsterdamOffset)
         ELSE Some(now)
    ELSE IF Has(entry, "published_parsed") /\ entry.published_parsed # <<>>
         THEN Some(Mktime(entry.published_parsed) + AmsterdamOffset)
         ELSE Null
ResolveDate_FallThrough(entry, now) ==
    IF Has(entry, "pubDate") /\ entry.pubDate.fmt = "rfc822"
    THEN Some(entry.pubDate.t + AmsterdamOffset)
    ELSE IF Has(entry, "published_parsed") /\ entry.published_parsed # <<>>
         THEN Some(Mktime(entry.published_parsed) + AmsterdamOffset)
         ELSE Some(now)
ResolveDate(entry, now) ==
    IF Has(entry, "pubDate")
    THEN IF entry.pubDate.fmt = "rfc822"
         THEN Some(entry.pubDate.t + AmsterdamOffset)
         ELSE Some(now)
    ELSE IF Has(entry, "published_parsed") /\ entry.published_parsed # <<>>
         THEN Some(Mktime(entry.published_parsed) + AmsterdamOffset)
         ELSE Some(now)

\* Line 84.
SummaryOf(entry) ==
    IF Has(entry, "summary") THEN entry.summary
    ELSE IF Has(entry, "description") THEN entry.description
    ELSE <<>>

\* Lines 86-91, with the id the flush assigns.  History kept with the row:
\* the entry it was made from and the instant it was made at.
NewArticle(entry, rows, now) ==
    [id |-> NextId(rows), title |-> entry.title, link |-> entry.link,
     published |-> ResolveDate(entry, now), summary |-> SummaryOf(entry),
     entry |-> entry, at |-> now]

\* entry.link (line 67) and entry.title (line 87) raise AttributeError when
\* the field is missing; the title is only read for a link not stored yet.
EntryRaises(entry, rows) ==
    \/ ~Has(entry, "link")
    \/ ~LinkExists(entry.link, rows) /\ ~Has(entry, "title")

\* The loop of lines 65-92 over one feed's entries: the rows the pass has
\* added so far (pending) grow, or an entry raises.
RECURSIVE IngestEntries(_, _, _, _)
IngestEntries(entries, committed, pending, now) ==
    IF entries = <<>> THEN [raised |-> FALSE, pending |-> pending]
    ELSE LET e == Head(entries)
             rows == committed \o pending
         IN IF EntryRaises(e, rows) THEN [raised |-> TRUE, pending |-> pending]
            ELSE IF LinkExists(e.link, rows)
                 THEN IngestEntries(Tail(entries), committed, pending, now)
                 ELSE IngestEntries(Tail(entries), committed,
                                    Append(pending, NewArticle(e, rows, now)), now)

\* The links of the entries of a feed (those that have one).
EntryLinks(entries) == { entries[i].link : i \in { j \in 1..Len(entries) : Has(entries[j], "link") } }

\* link is unique=True: the INSERT of a link that is already stored fails.
UniqueViolation(committed, pending) ==
    \E i \in 1..Len(pending) : pending[i].link \in Links(committed)

\* db.session.commit(): the added rows become durable.
CommitRows_Replace(committed, pending) == pending
CommitRows_Lost(committed, pending) == committed
CommitRows(committed, pending) == committed \o pending

(* ----------------------------------------------------------------- reads *)
\* ORDER BY published DESC: NULL sorts below every date.
SortKey(r) == IF r.published = Null THEN -1 ELSE r.published[1]

\* The orders ORDER BY published DESC may return the rows in: SQL leaves the
\* order of rows with equal published open.
Orderings(rows) ==
    { o \in [1..Len(rows) -> Range(rows)] :
        /\ \A r \in Range(rows) : \E i \in 1..Len(rows) : o[i] = r
        /\ \A i \in 1..(Len(rows) - 1) : SortKey(o[i]) >= SortKey(o[i + 1]) }

\* LIMIT n
Limit(rows, n) == IF Len(rows) <= n THEN rows ELSE SubSeq(rows, 1, n)

\* lower(), for ilike
Lower(c) == IF c = "A" THEN "a" ELSE IF c = "B" THEN "b" ELSE c

\* SQL LIKE: % matches any run of characters, _ any one character.
RECURSIVE Like(_, _)
Like(pat, text) ==
    IF pat = <<>> THEN text = <<>>
    ELSE IF Head(pat) = "%"
         THEN \/ Like(Tail(pat), text)
              \/ text # <<>> /\ Like(pat, Tail(text))
         ELSE /\ text # <<>>
              /\ (Head(pat) = "_" \/ Lower(Head(pat)) = Lower(Head(text)))
              /\ Like(Tail(pat), Tail(text))

\* Column.ilike(f'%{search}%')
ILikeContains(text, search) == Like(<<"%">> \o search \o <<"%">>, text)

\* str.strip()
RECURSIVE LStrip(_)
LStrip(s) == IF s # <<>> /\ Head(s) = " " THEN LStrip(Tail(s)) ELSE s
RECURSIVE RStrip(_)
RStrip(s) == IF s # <<>> /\ s[Len(s)] = " " THEN RStrip(SubSeq(s, 1, Len(s) - 1)) ELSE s
Strip(s) == RStrip(LStrip(s))

\* Lines 116-120: the rows whose title or summary matches.
RECURSIVE Filter(_, _)
Filter(rows, search) ==
    IF rows = <<>> THEN <<>>
    ELSE LET r == Head(rows)
         IN IF ILikeContains(r.title, search) \/ ILikeContains(r.summary, search)
            THEN <<r>> \o Filter(Tail(rows), search)
            ELSE Filter(Tail(rows), search)

\* The q parameters the requests of the model carry.
Queries == { <<>>, <<" ">>, <<"a">>, <<"%">>, <<" ", "B">> }

(* ----------------------------------------------------------------- state *)
VARIABLES
    proc,         \* the main thread: "boot", "ready", "started", "serving",
                  \* "stopping", "stopped" or "crashed"
    tables,       \* db.create_all() has run
    sched,        \* the BackgroundScheduler: "off", "on" or "shutdown"
    now,          \* the clock, in minutes
    source,       \* what the feeds serve: <<>> when it changes freely,
                  \* else the fixed outcome of every feed
    articles,     \* the committed rows of the article table, in id order
    pass,         \* per thread, the update_feed() call it is running
    last_reload,  \* the global of line 20: Null or the time of the last pass
    last,         \* history: the call of update_feed() that ended last
    response      \* the response being sent: a request is answered in one
                  \* step and its response is delivered before the next step

vars == <<proc, tables, sched, now, source, articles, pass, last_reload, last, response>>

\* A thread outside update_feed().
\* pc is "idle", "running" (in the loop of line 57, about to fetch feed
\* number feed, or past the last feed and about to commit), "hung" (in a
\* fetch that never returns) or "committed" (between lines 94 and 96).  pending: the rows added and not committed.
\* History of the call: got (entries fetched), kinds (what each feed fetched
\* came to), seen (the links of the entries gone through), before (the table
\* when the call began).
IdlePass == [pc |-> "idle", feed |-> 1, pending |-> <<>>, got |-> 0,
             kinds |-> <<>>, seen |-> {}, before |-> <<>>]

\* n: calls ended so far, ok of them completed; outcome: "completed" or
\* "aborted"; added: the rows the call committed; all: the rows committed by
\* all completed calls; ingested: the links the completed calls went through.
NoPassYet == [n |-> 0, ok |-> 0, outcome |-> "none", thread |-> "main",
              kinds |-> <<>>, got |-> 0, seen |-> {}, added |-> <<>>,
              before |-> <<>>, all |-> <<>>, ingested |-> {}]

\* done: the rows committed by the calls that had completed when the request
\* was answered.
NoResponse == [route |-> "none", q |-> <<>>, rows |-> <<>>, last_reload |-> Null,
               done |-> <<>>]

Init ==
    /\ proc = "boot"
    /\ tables = FALSE
    /\ sched = "off"
    /\ now = 0
    /\ source = <<>>
    /\ articles = <<>>
    /\ pass = [th \in Threads |-> IdlePass]
    /\ last_reload = Null
    /\ last = NoPassYet
    /\ response = NoResponse

Running == { th \in Threads : pass[th].pc # "idle" }

(* ------------------------------------------------------------ update_feed *)
\* Line 160 / the scheduler's executor: a thread enters update_feed().
Enter(th) == [pass EXCEPT ![th] = [IdlePass EXCEPT !.pc = "running", !.before = articles]]

\* The history of the call that ended last is kept until the next call begins.
Forget == [last EXCEPT !.outcome = "none", !.thread = "main", !.kinds = <<>>,
                       !.got = 0, !.seen = {}, !.added = <<>>, !.before = <<>>]

\* What the fetch of the next feed may yield.
FeedOptions(th) ==
    IF source = <<>>
    THEN { o \in Outcomes : Len(o.entries) <= MaxEntries - pass[th].got }
    ELSE { source[pass[th].feed] }

AtFeed(th) == pass[th].pc = "running" /\ pass[th].feed <= NumFeeds

\* Lines 94-96 against an exception that leaves update_feed(): last_reload
\* is assigned only after the commit of a pass that got through every feed.
LastReloadAfter_Always(outcome, old, t) == Some(t)
LastReloadAfter(outcome, old, t) == IF outcome = "completed" THEN Some(t) ELSE old

\* An exception leaves update_feed(): the app context is popped and its
\* session removed, which rolls the added rows back.  In the main thread
\* nothing catches it (line 160) and the process ends; in a worker the
\* scheduler logs it and keeps the job.
Abort_Commits(th, kind) ==
    /\ pass' = [pass EXCEPT ![th] = IdlePass]
    /\ last' = [last EXCEPT !.n = @ + 1, !.outcome = "aborted", !.thread = th,
                             !.kinds = Append(pass[th].kinds, kind),
                             !.got = pass[th].got,
                             !.seen = pass[th].seen, !.added = <<>>,
                             !.before = pass[th].before]
    /\ last_reload' = LastReloadAfter("aborted", last_reload, now)
    /\ proc' = IF th = "main" THEN "crashed" ELSE proc
    /\ response' = NoResponse
    /\ articles' = articles \o pass[th].pending
    /\ UNCHANGED <<tables, sched, now, source>>
Abort(th, kind) ==
    /\ pass' = [pass EXCEPT ![th] = IdlePass]
    /\ last' = [last EXCEPT !.n = @ + 1, !.outcome = "aborted", !.thread = th,
                             !.kinds = Append(pass[th].kinds, kind),
                             !.got = pass[th].got,
                             !.seen = pass[th].seen, !.added = <<>>,
                             !.before = pass[th].before]
    /\ last_reload' = LastReloadAfter("aborted", last_reload, now)
    /\ proc' = IF th = "main" THEN "crashed" ELSE proc
    /\ response' = NoResponse
    /\ UNCHANGED <<tables, sched, now, source, articles>>

\* Line 37: requests.get raises (connection refused, DNS, ...).
FetchFails(th) ==
    /\ AtFeed(th)
    /\ FetchError \in FeedOptions(th)
    /\ Abort(th, "error")

\* Line 37 gives requests.get no timeout: against a server that accepts the
\* connection and never answers, the call never returns.  pc "hung" is a
\* thread in such a call.
FetchHangs(th) ==
    /\ AtFeed(th)
    /\ FetchError \in FeedOptions(th)
    /\ pass' = [pass EXCEPT ![th].pc = "hung"]
    /\ response' = NoResponse
    /\ UNCHANGED <<proc, tables, sched, now, source, articles, last_reload, last>>

\* Lines 61-63: `continue` goes on with the next feed.
AfterEmptyFeed_Break(feed) == NumFeeds + 1
AfterEmptyFeed(feed) == feed + 1

FeedEmpty(th) ==
    /\ AtFeed(th)
    /\ Fetched(<<>>) \in FeedOptions(th)
    /\ pass' = [pass EXCEPT ![th].feed = AfterEmptyFeed(@),
                             ![th].kinds = Append(@, "empty")]
    /\ response' = NoResponse
    /\ UNCHANGED <<proc, tables, sched, now, source, articles, last_reload, last>>

\* Lines 65-92 for a feed with entries, none of which raises.
IngestFeed(th) ==
    /\ AtFeed(th)
    /\ \E o \in FeedOptions(th) :
          /\ o.ok /\ o.entries # <<>>
          /\ LET r == IngestEntries(o.entries, articles, pass[th].pending, now)
             IN /\ ~r.raised
                /\ pass' = [pass EXCEPT ![th].feed = @ + 1,
                                         ![th].pending = r.pending,
                                         ![th].got = @ + Len(o.entries),
                                         ![th].kinds = Append(@, "entries"),
                                         ![th].seen = @ \cup EntryLinks(o.entries)]
    /\ response' = NoResponse
    /\ UNCHANGED <<proc, tables, sched, now, source, articles, last_reload, last>>

\* Lines 65-92 for a feed one of whose entries raises.
IngestRaises(th) ==
    /\ AtFeed(th)
    /\ \E o \in FeedOptions(th) :
          /\ o.ok /\ o.entries # <<>>
          /\ IngestEntries(o.entries, articles, pass[th].pending, now).raised
    /\ Abort(th, "raised")

\* Line 94.  A row whose link another transaction stored meanwhile fails the
\* unique constraint (line 26) and the commit raises.
Commit(th) ==
    /\ pass[th].pc = "running" /\ pass[th].feed > NumFeeds
    /\ IF UniqueViolation(articles, pass[th].pending)
       THEN Abort(th, "conflict")
       ELSE /\ articles' = CommitRows(articles, pass[th].pending)
            /\ pass' = [pass EXCEPT ![th].pc = "committed"]
            /\ response' = NoResponse
            /\ UNCHANGED <<proc, tables, sched, now, source, last_reload, last>>

\* Lines 96-97, and the return: to line 163 in the main thread.
Stamp(th) ==
    /\ pass[th].pc = "committed"
    /\ last_reload' = LastReloadAfter("completed", last_reload, now)
    /\ last' = [n |-> last.n + 1, ok |-> last.ok + 1,
                outcome |-> "completed", thread |-> th,
                kinds |-> pass[th].kinds, got |-> pass[th].got,
                seen |-> pass[th].seen,
                added |-> pass[th].pending, before |-> pass[th].before,
                all |-> last.all \o pass[th].pending,
                ingested |-> last.ingested \cup pass[th].seen]
    /\ pass' = [pass EXCEPT ![th] = IdlePass]
    /\ proc' = IF th = "main" THEN "ready" ELSE proc
    /\ response' = NoResponse
    /\ UNCHANGED <<tables, sched, now, source, articles>>

(* -------------------------------------------------------------- __main__ *)
\* Lines 158-160: create the tables, then call update_feed().
Boot ==
    /\ proc = "boot" /\ pass["main"].pc = "idle"
    /\ tables' = TRUE
    /\ pass' = Enter("main")
    /\ response' = NoResponse
    /\ UNCHANGED <<proc, sched, now, source, articles, last_reload, last>>

\* Lines 163-165.
StartScheduler_Early ==
    /\ proc \in {"boot", "ready"} /\ pass["main"].pc = "idle"
    /\ sched' = "on"
    /\ proc' = "started"
    /\ response' = NoResponse
    /\ UNCHANGED <<tables, now, source, articles, pass, last_reload, last>>
StartScheduler ==
    /\ proc = "ready"
    /\ sched' = "on"
    /\ proc' = "started"
    /\ response' = NoResponse
    /\ UNCHANGED <<tables, now, source, articles, pass, last_reload, last>>

\* Line 168: the server accepts requests.
AppRun ==
    /\ proc = "started"
    /\ proc' = "serving"
    /\ response' = NoResponse
    /\ UNCHANGED <<tables, sched, now, source, articles, pass, last_reload, last>>

\* The scheduler starts a run of the job only while fewer than
\* max_instances runs of it are in progress.
CanStartJob_Always(n) == TRUE
CanStartJob(n) == n < MaxInstances

TimerDue == sched = "on" /\ now < MaxClock * IntervalMinutes

FreeWorker == CHOOSE w \in Workers : pass[w].pc = "idle"

\* The interval elapses and the job is run in a worker thread.
TickRun ==
    /\ TimerDue
    /\ CanStartJob(Cardinality(Running \cap Workers))
    /\ \E w \in Workers : pass[w].pc = "idle"
    /\ now' = now + IntervalMinutes
    /\ pass' = Enter(FreeWorker)
    /\ last' = Forget
    /\ response' = NoResponse
    /\ UNCHANGED <<proc, tables, sched, source, articles, last_reload>>

\* The interval elapses while the job is still running: the run is skipped.
TickSkip ==
    /\ TimerDue
    /\ ~CanStartJob(Cardinality(Running \cap Workers))
    /\ now' = now + IntervalMinutes
    /\ response' = NoResponse
    /\ UNCHANGED <<proc, tables, sched, source, articles, pass, last_reload, last>>

\* Lines 169-172: the server stops and the scheduler is shut down; the
\* shutdown waits for a running job.
Interrupt_NoShutdown ==
    /\ proc = "serving"
    /\ proc' = "stopping"
    /\ response' = NoResponse
    /\ UNCHANGED <<tables, sched, now, source, articles, pass, last_reload, last>>
Interrupt ==
    /\ proc = "serving"
    /\ proc' = "stopping"
    /\ sched' = "shutdown"
    /\ response' = NoResponse
    /\ UNCHANGED <<tables, now, source, articles, pass, last_reload, last>>

Exit ==
    /\ proc = "stopping" /\ Running = {}
    /\ proc' = "stopped"
    /\ response' = NoResponse
    /\ UNCHANGED <<tables, sched, now, source, articles, pass, last_reload, last>>

\* The process is ended while the shutdown of line 172 waits for a running
\* job: the rows the job has added (line 92) and not committed (line 94) are
\* not in the database.
Kill ==
    /\ proc = "stopping" /\ Running # {}
    /\ proc' = "stopped"
    /\ pass' = [th \in Threads |-> IdlePass]
    /\ response' = NoResponse
    /\ UNCHANGED <<tables, sched, now, source, articles, last_reload, last>>

(* -------------------------------------------------------------- requests *)
\* Lines 99-103.
Index_ReadUncommitted ==
    /\ proc = "serving"
    /\ \E th \in Threads : \E o \in Orderings(articles \o pass[th].pending) :
          response' = [route |-> "index", q |-> <<>>, rows |-> Limit(o, PageLimit),
                       last_reload |-> last_reload, done |-> last.all]
    /\ UNCHANGED <<proc, tables, sched, now, source, articles, pass, last_reload, last>>
Index ==
    /\ proc = "serving"
    /\ \E o \in Orderings(articles) :
          response' = [route |-> "index", q |-> <<>>, rows |-> Limit(o, PageLimit),
                       last_reload |-> last_reload, done |-> last.all]
    /\ UNCHANGED <<proc, tables, sched, now, source, articles, pass, last_reload, last>>

\* Lines 105-123 (the XML of lines 125-154 lists these rows in this order).
RssFeed ==
    /\ proc = "serving"
    /\ \E q \in Queries :
          LET search == Strip(q)
          IN \E o \in Orderings(articles) :
                response' = [route |-> "rss", q |-> q,
                             rows |-> Limit(IF search # <<>> THEN Filter(o, search) ELSE o,
                                            RssLimit),
                             last_reload |-> Null, done |-> last.all]
    /\ UNCHANGED <<proc, tables, sched, now, source, articles, pass, last_reload, last>>

Next ==
    \/ Boot
    \/ \E th \in Threads : FetchFails(th)
    \/ \E th \in Threads : FetchHangs(th)
    \/ \E th \in Threads : FeedEmpty(th)
    \/ \E th \in Threads : IngestFeed(th)
    \/ \E th \in Threads : IngestRaises(th)
    \/ \E th \in Threads : Commit(th)
    \/ \E th \in Threads : Stamp(th)
    \/ StartScheduler
    \/ AppRun
    \/ TickRun
    \/ TickSkip
    \/ Interrupt
    \/ Exit
    \/ Kill
    \/ Index
    \/ RssFeed

Spec == Init /\ [][Next]_vars

\* The same program against a feed source that does not change: every fetch
\* of a feed yields the same outcome.
\* The sources of n feeds that serve at most budget entries in all.
RECURSIVE SourcesOf(_, _)
SourcesOf(n, budget) ==
    IF n = 0 THEN { <<>> }
    ELSE UNION { { Append(src, o) : src \in SourcesOf(n - 1, budget - Len(o.entries)) } :
                 o \in { x \in Outcomes : Len(x.entries) <= budget } }

FixedSources == SourcesOf(NumFeeds, MaxEntries)

InitFixed ==
    /\ proc = "boot"
    /\ tables = FALSE
    /\ sched = "off"
    /\ now = 0
    /\ source \in FixedSources
    /\ articles = <<>>
    /\ pass = [th \in Threads |-> IdlePass]
    /\ last_reload = Null
    /\ last = NoPassYet
    /\ response = NoResponse

SpecFixed == InitFixed /\ [][Next]_vars

(* ---------------------------------------------------------------- claims *)
Count(rows, link) == Cardinality({ i \in 1..Len(rows) : rows[i].link = link })

\* C1 (dedup): the table never holds two articles with one link, and it
\* holds an article for every link a completed pass went through.
C1_Dedup ==
    /\ \A l \in Links(articles) : Count(articles, l) = 1
    /\ \A l \in last.ingested : Count(articles, l) = 1

\* A pass that began with articles stored has completed after going through
\* two entries with the same new link, and stored one article for it.
C1_Witness ==
    /\ last.outcome = "completed" /\ last.before # <<>>
    /\ last.got = 2 /\ Cardinality(last.seen) = 1 /\ Len(last.added) = 1

OnlyKinds(kinds, S) == \A i \in 1..Len(kinds) : kinds[i] \in S

\* What C2 and C3 say of a pass that has ended: it went through every feed
\* and every link it fetched is stored.
WentThroughAllFeeds ==
    /\ last.outcome = "completed"
    /\ Len(last.kinds) = NumFeeds
    /\ last.seen \subseteq Links(articles)

\* C2: a pass in which the fetch of a feed failed (and nothing else went
\* wrong) still goes through every feed and stores the others' articles.
C2_FetchErrorSkipsFeed ==
    (/\ last.outcome # "none"
     /\ \E i \in 1..Len(last.kinds) : last.kinds[i] = "error"
     /\ OnlyKinds(last.kinds, {"error", "empty", "entries"}))
    => WentThroughAllFeeds

\* C3: a pass in which a feed came back without entries (and nothing else
\* went wrong) goes through every feed and stores the others' articles.
C3_EmptyFeedSkipped ==
    (/\ last.outcome # "none"
     /\ \E i \in 1..Len(last.kinds) : last.kinds[i] = "empty"
     /\ OnlyKinds(last.kinds, {"empty", "entries"}))
    => WentThroughAllFeeds

\* The second of three feeds was empty and the pass stored an article from
\* the first and one from the third.
C3_Witness ==
    /\ last.outcome = "completed"
    /\ last.kinds = <<"entries", "empty", "entries">>
    /\ Len(last.added) = 2
    /\ \A i \in 1..2 : last.added[i] \in Range(articles)

\* C4: no failing pass, the boot pass included, ends the process.
C4_ProcessSurvives == last.outcome = "aborted" => proc # "crashed"

\* C5 (idempotent re-ingestion): against an unchanged feed source, the table
\* after the second (or a later) pass equals the table after the pass before.
C5_Idempotent == (last.n >= 2 /\ last.outcome # "none") => articles = last.before

\* A second pass has completed over a source whose entries are stored.
C5_Witness ==
    /\ source # <<>>
    /\ last.n >= 2 /\ last.outcome = "completed"
    /\ last.got = 2 /\ last.seen # {} /\ articles # <<>>

\* C6 (immutable articles): every step leaves every stored row as it is.
C6_Immutable ==
    [][\A i \in 1..Len(articles) : Len(articles') >= i /\ articles'[i] = articles[i]]_vars

\* A pass has completed that went through a link stored before it began, and
\* stored another article.
C6_Witness ==
    /\ last.outcome = "completed"
    /\ last.seen \cap Links(last.before) # {}
    /\ last.added # <<>>
    /\ \A i \in 1..Len(last.before) : articles[i] = last.before[i]

\* C7 (no overlapping passes): at most one thread is inside update_feed().
C7_NoOverlap == Cardinality(Running) <= 1

\* The second tick has elapsed while the pass begun at the first is running.
C7_Witness ==
    /\ last.n = 1 /\ now = 2 * IntervalMinutes
    /\ \E w \in Workers : pass[w].pc = "running" /\ pass[w].kinds # <<>>

\* The rows a query with this q selects.
Selected(rows, q) == IF Strip(q) # <<>> THEN Filter(rows, Strip(q)) ELSE rows
LimitOf(route) == IF route = "index" THEN PageLimit ELSE RssLimit

\* C8: the rows of the completed passes are in the table, and a response
\* lists every one of them that its query selects (up to its limit).
C8_ReadSeesCompleted ==
    /\ \A r \in Range(last.all) : r \in Range(articles)
    /\ response.route # "none" =>
          \/ Len(response.rows) = LimitOf(response.route)
          \/ \A r \in Range(Selected(response.done, response.q)) :
                r \in Range(response.rows)

\* The page is answered after two passes have completed, with the articles
\* of both.
C8_Witness ==
    /\ response.route = "index"
    /\ last.ok = 2 /\ last.outcome = "completed" /\ last.added # <<>>
    /\ Len(last.before) = 1
    /\ Range(response.rows) = Range(last.all)

C10_PublishedPopulated ==
    /\ \A r \in Range(articles) : r.published # Null
    /\ \A th \in Threads : \A r \in Range(pass[th].pending) : r.published # Null

\* Stored: an entry without date fields and one whose pubDate does not parse.
C10_Witness ==
    /\ \E r \in Range(articles) : r.link = "a" /\ r.title = TitleB
    /\ \E r \in Range(articles) : r.link = "b" /\ r.title = TitleA

\* The entry has no usable date field.
LacksDates(e) ==
    /\ ~Has(e, "pubDate")
    /\ ~Has(e, "published_parsed") \/ e.published_parsed = <<>>

\* The instant the entry's own date names (for an entry that has one).
HasOwnDate(e) ==
    \/ Has(e, "pubDate") /\ e.pubDate.fmt = "rfc822"
    \/ ~Has(e, "pubDate") /\ Has(e, "published_parsed") /\ e.published_parsed # <<>>
OwnInstant(e) ==
    IF Has(e, "pubDate") THEN e.pubDate.t ELSE e.published_parsed[1]

\* C11 (fallback date): an article made from an entry without dates is stored
\* with the instant it was made at, in Amsterdam time like the parsed dates;
\* so the page lists it above every article whose own date is earlier than
\* that instant and below every article whose own date is later.
C11_FallbackInReferenceZone ==
    /\ \A r \in Range(articles) :
          LacksDates(r.entry) => r.published = Some(r.at + AmsterdamOffset)
    /\ response.route = "index" =>
          \A i, j \in 1..Len(response.rows) :
             LET f == response.rows[i]
                 d == response.rows[j]
             IN (LacksDates(f.entry) /\ HasOwnDate(d.entry)) =>
                   /\ OwnInstant(d.entry) < f.at => i < j
                   /\ OwnInstant(d.entry) > f.at => j < i

Min(a, b) == IF a <= b THEN a ELSE b

\* The response lists the newest articles, without a search term.
IsRecent(resp) == resp.route = "index" \/ (resp.route = "rss" /\ Strip(resp.q) = <<>>)

\* C12 (ordering): the page (n = 25) and the feed without a term (n = 10)
\* list min(n, total) articles by published descending, articles of equal
\* published by ascending id.
C12_RecentOrdered ==
    IsRecent(response) =>
       /\ Len(response.rows) = Min(LimitOf(response.route), Len(articles))
       /\ \A i, j \in 1..Len(response.rows) :
             i < j =>
               \/ SortKey(response.rows[i]) > SortKey(response.rows[j])
               \/ /\ SortKey(response.rows[i]) = SortKey(response.rows[j])
                  /\ response.rows[i].id < response.rows[j].id

\* term occurs in text, letter case aside.
Contains(text, term) ==
    \E k \in 0..(Len(text) - Len(term)) :
       \A i \in 1..Len(term) : Lower(text[k + i]) = Lower(term[i])

\* The articles that have the term in their title or summary.
Candidates(rows, term) ==
    { r \in Range(rows) : Contains(r.title, term) \/ Contains(r.summary, term) }

\* C13 (search): the feed with a term lists the first 10, by published
\* descending, of exactly the articles that have the term in their title or
\* summary, whatever characters the term is made of.
C13_SearchIsSubstring ==
    (response.route = "rss" /\ Strip(response.q) # <<>>) =>
       LET cands == Candidates(articles, Strip(response.q))
       IN /\ Range(response.rows) \subseteq cands
          /\ Len(response.rows) = Min(RssLimit, Cardinality(cands))
          /\ \A i, j \in 1..Len(response.rows) :
                i < j => /\ response.rows[i] # response.rows[j]
                         /\ SortKey(response.rows[i]) >= SortKey(response.rows[j])

\* C14 (every pass terminates): no thread is ever in a fetch that does not
\* return, so a pass always gets on to its end.
C14_EveryFetchReturns == \A th \in Threads : pass[th].pc # "hung"

\* The committed rows and the rows the running passes have added.
AllRows == Range(articles) \cup UNION { Range(pass[th].pending) : th \in Threads }

\* p is the instant at (the ingestion time), as UTC or as Amsterdam time.
IsIngestionTime(p, at) == p = Some(at) \/ p = Some(at + AmsterdamOffset)

\* C15 (date precedence): a pubDate that parses is used, whatever else the
\* entry has; one that does not parse gives the ingestion time even when a
\* time tuple is there; the time tuple is used only without a pubDate field;
\* with neither, the ingestion time.
C15_DatePrecedence ==
    \A r \in AllRows :
       LET e == r.entry
       IN /\ (Has(e, "pubDate") /\ e.pubDate.fmt = "rfc822") =>
                r.published = Some(e.pubDate.t + AmsterdamOffset)
          /\ (Has(e, "pubDate") /\ e.pubDate.fmt # "rfc822") =>
                IsIngestionTime(r.published, r.at)
          /\ (~Has(e, "pubDate") /\ Has(e, "published_parsed")
                /\ e.published_parsed # <<>>) =>
                r.published = Some(e.published_parsed[1] + AmsterdamOffset)
          /\ LacksDates(e) => IsIngestionTime(r.published, r.at)

\* Stored: an entry with a pubDate that parses and another time in its time
\* tuple, and an entry with a pubDate that does not parse and a time tuple.
C15_Witness ==
    /\ \E r \in Range(articles) :
          /\ Has(r.entry, "pubDate") /\ r.entry.pubDate.fmt = "rfc822"
          /\ Has(r.entry, "published_parsed")
          /\ r.entry.published_parsed # <<r.entry.pubDate.t>>
    /\ \E r \in Range(articles) :
          /\ Has(r.entry, "pubDate") /\ r.entry.pubDate.fmt # "rfc822"
          /\ Has(r.entry, "published_parsed") /\ r.entry.published_parsed # <<>>

\* C16 (missing fields): an entry without a link is dropped, an entry without
\* another field is stored, and in both cases the pass goes on: no pass ends
\* because an entry of a feed raised.
C16_MissingFieldTolerated ==
    ~ /\ last.outcome = "aborted"
      /\ last.kinds # <<>>
      /\ last.kinds[Len(last.kinds)] = "raised"

\* The boot sequence is past its first two steps: the tables exist and the
\* pass of the main thread has run to its end.
InitialPassDone ==
    /\ tables
    /\ pass["main"].pc = "idle"
    /\ last_reload # Null
    /\ proc \notin {"boot", "crashed"}

\* C17 (boot ordering): the timer is started, a tick happens, a timer pass
\* runs and a request is served only after the tables were created and the
\* initial pass has finished.
C17_BootOrdering ==
    ( \/ sched # "off"
      \/ now > 0
      \/ Running \cap Workers # {}
      \/ response.route # "none"
      \/ proc \in {"started", "serving", "stopping", "stopped"} )
    => InitialPassDone

\* A request is answered after a tick of the timer.
C17_Witness == response.route = "index" /\ now >= 1 /\ sched = "on"

\* C18 (clean shutdown): a process that stops has shut the scheduler down;
\* from then on no tick happens and no pass starts, a pass in flight ends
\* with all of its rows stored or none, nothing is in flight once the process
\* has stopped, and the stored links stay distinct.
C18_CleanShutdown ==
    [][ /\ proc' \in {"stopping", "stopped"} => sched' = "shutdown"
        /\ proc' = "stopped" => \A th \in Threads : pass'[th].pc = "idle"
        /\ sched = "shutdown" =>
              /\ sched' = "shutdown"
              /\ now' = now
              /\ \A th \in Threads : pass[th].pc = "idle" => pass'[th].pc = "idle"
              /\ \/ articles' = articles
                 \/ \E th \in Running : articles' = articles \o pass[th].pending
              /\ Cardinality(Links(articles')) = Len(articles')
      ]_vars

\* The scheduler was shut down while a pass that has added rows is in flight.
C18_Witness ==
    /\ proc = "stopping" /\ sched = "shutdown"
    /\ \E w \in Workers : pass[w].pc = "running" /\ pass[w].pending # <<>>

\* C19 (a pass is all-or-nothing): the stored rows change only in the one
\* commit of a pass, after its last feed, by all the rows the pass has added;
\* a pass that ends with an exception leaves the stored rows as they were
\* when it began and the last-reload time as it was.
C19_AllOrNothing ==
    [][ /\ articles' # articles =>
              \E th \in Threads :
                 /\ pass[th].pc = "running" /\ pass[th].feed > NumFeeds
                 /\ pass'[th].pc = "committed"
                 /\ articles' = articles \o pass[th].pending
        /\ (last'.n # last.n /\ last'.outcome = "aborted") =>
              /\ articles' = articles
              /\ articles' = last'.before
              /\ last_reload' = last_reload
      ]_vars

\* A pass ended with an exception after it had added a row from an earlier feed.
C19_Witness ==
    /\ last.outcome = "aborted"
    /\ Len(last.kinds) >= 2
    /\ last.seen \ Links(articles) # {}

\* The stored rows at the pass boundaries a response may be read at: after
\* the passes that have ended, or after the pass that has committed as well.
Boundaries(resp) ==
    {resp.done} \cup { resp.done \o pass[th].pending :
                          th \in { t \in Threads : pass[t].pc = "committed" } }

\* C20 (reads see whole passes): a response holds no row that a pass in
\* flight has added and not committed, and its rows are those its query
\* selects from the stored rows at a pass boundary: every selected row of
\* that boundary when they fit its limit, rows of that boundary otherwise.
C20_ReadsAtPassBoundary ==
    response.route # "none" =>
       /\ \A th \in Threads :
             pass[th].pc \in {"running", "hung"} =>
                \A i \in 1..Len(pass[th].pending) :
                   pass[th].pending[i] \notin Range(response.rows)
       /\ \E b \in Boundaries(response) :
             LET sel == Range(Selected(b, response.q))
             IN /\ Range(response.rows) \subseteq sel
                /\ Cardinality(sel) <= LimitOf(response.route) =>
                      Range(response.rows) = sel

\* The page is answered with stored rows while a timer pass that has added a
\* row is in flight.
C20_Witness ==
    /\ response.route = "index" /\ response.rows # <<>>
    /\ \E w \in Workers : pass[w].pc = "running" /\ pass[w].pending # <<>>

====
